---- MODULE Spec2Model ----
(***************************************************************************)
(* TextToMidi: the note resolver (normalize_note_name, note_to_midi) and   *)
(* the score compiler (parse_text_to_midi) of main.py.                     *)
(*                                                                         *)
(* Python strings are TLA+ strings, taken apart with Len, Head, Tail,      *)
(* SubSeq and \o.  A Python value that is either a number, None or a       *)
(* raised exception is a record with a "kind" field.  A float is an exact  *)
(* decimal with Scale units per 1 (no binary rounding error is modelled).  *)
(***************************************************************************)
EXTENDS Integers, Sequences, FiniteSets, TLC

VARIABLES
    bpm,        \* parse_text_to_midi's bpm argument
    tempo,      \* the local tempo = bpm2tempo(bpm)
    text,       \* the lines of text.strip().splitlines() the loop has taken so far
    track,      \* the MidiTrack: the messages appended so far
    line_end,   \* Len(track) after each line the loop has finished
    status,     \* "start", "loop", "returned", "raised", or "resolver"
    exc,        \* the exception that left parse_text_to_midi ("" when none)
    token,      \* the argument of a direct note_to_midi call
    resolved    \* what that call gave

vars == <<bpm, tempo, text, track, line_end, status, exc, token, resolved>>

----------------------------------------------------------------------------
(* Python str helpers *)

Whitespace == {" ", "\t"}

CharAt(s, i) == SubSeq(s, i, i)

RECURSIVE lstrip(_)
lstrip(s) ==
    IF Len(s) > 0 /\ Head(s) \in Whitespace THEN lstrip(Tail(s)) ELSE s

RECURSIVE rstrip(_)
rstrip(s) ==
    IF Len(s) > 0 /\ CharAt(s, Len(s)) \in Whitespace
    THEN rstrip(SubSeq(s, 1, Len(s) - 1))
    ELSE s

strip(s) == rstrip(lstrip(s))

LowerCase == "abcdefghijklmnopqrstuvwxyz"
UpperCase == "ABCDEFGHIJKLMNOPQRSTUVWXYZ"

upper_char(c) ==
    IF \E i \in 1..Len(LowerCase) : CharAt(LowerCase, i) = c
    THEN CharAt(UpperCase, CHOOSE i \in 1..Len(LowerCase) : CharAt(LowerCase, i) = c)
    ELSE c

RECURSIVE upper(_)
upper(s) == IF Len(s) = 0 THEN s ELSE upper_char(Head(s)) \o upper(Tail(s))

\* s.split(): the maximal runs of non-whitespace characters, in order.
RECURSIVE split_ws(_, _)
split_ws(s, cur) ==
    IF Len(s) = 0
    THEN IF Len(cur) = 0 THEN <<>> ELSE <<cur>>
    ELSE IF Head(s) \in Whitespace
         THEN IF Len(cur) = 0
              THEN split_ws(Tail(s), "")
              ELSE <<cur>> \o split_ws(Tail(s), "")
         ELSE split_ws(Tail(s), cur \o Head(s))

split(s) == split_ws(s, "")

\* s.split(','): the pieces between commas, empty pieces kept.
RECURSIVE split_comma_from(_, _)
split_comma_from(s, cur) ==
    IF Len(s) = 0
    THEN <<cur>>
    ELSE IF Head(s) = ","
         THEN <<cur>> \o split_comma_from(Tail(s), "")
         ELSE split_comma_from(Tail(s), cur \o Head(s))

split_comma(s) == split_comma_from(s, "")

Digits == "0123456789"

IsDigit(c) == \E i \in 1..Len(Digits) : CharAt(Digits, i) = c

DigitVal(c) == (CHOOSE i \in 1..Len(Digits) : CharAt(Digits, i) = c) - 1

RECURSIVE AllDigits(_)
AllDigits(s) == Len(s) = 0 \/ (IsDigit(Head(s)) /\ AllDigits(Tail(s)))

RECURSIVE DigitsVal(_, _)
DigitsVal(s, acc) ==
    IF Len(s) = 0 THEN acc ELSE DigitsVal(Tail(s), 10 * acc + DigitVal(Head(s)))

----------------------------------------------------------------------------
(* Python values *)

None == [kind |-> "None"]
Int_(n) == [kind |-> "int", val |-> n]
Raise(e) == [kind |-> "raise", exc |-> e]

----------------------------------------------------------------------------
(* The note resolver *)

note_names == {"C", "C#", "D", "D#", "E", "F", "F#", "G", "G#", "A", "A#", "B"}

note_map ==
    [p \in note_names |->
        CASE p = "C" -> 0 [] p = "C#" -> 1 [] p = "D" -> 2 [] p = "D#" -> 3
          [] p = "E" -> 4 [] p = "F" -> 5 [] p = "F#" -> 6 [] p = "G" -> 7
          [] p = "G#" -> 8 [] p = "A" -> 9 [] p = "A#" -> 10 [] p = "B" -> 11]

flat_to_sharp(pitch) ==
    CASE pitch = "A" -> "G#" [] pitch = "B" -> "A#" [] pitch = "C" -> "B"
      [] pitch = "D" -> "C#" [] pitch = "E" -> "D#" [] pitch = "F" -> "E"
      [] pitch = "G" -> "F#" [] OTHER -> pitch

PitchLetters == {"A", "B", "C", "D", "E", "F", "G"}

\* re.match(r"^([A-G])([#B]?)(\d)$", note): the groups, or no match.
note_match(note) ==
    IF Len(note) = 2 /\ CharAt(note, 1) \in PitchLetters /\ IsDigit(CharAt(note, 2))
    THEN [matched |-> TRUE, pitch |-> CharAt(note, 1), accidental |-> "",
          octave_str |-> CharAt(note, 2)]
    ELSE IF /\ Len(note) = 3
            /\ CharAt(note, 1) \in PitchLetters
            /\ CharAt(note, 2) \in {"#", "B"}
            /\ IsDigit(CharAt(note, 3))
         THEN [matched |-> TRUE, pitch |-> CharAt(note, 1),
               accidental |-> CharAt(note, 2), octave_str |-> CharAt(note, 3)]
         ELSE [matched |-> FALSE]

\* Lines 28-51, from the groups of the match: the flat is turned into its sharp,
\* the spelling is looked up, the pair is returned.
normalize_groups(pitch, accidental, octave_str) ==
    LET full_pitch == IF accidental = "B" THEN flat_to_sharp(pitch)
                      ELSE pitch \o accidental
    IN  IF full_pitch \notin note_names
        THEN Raise("ValueError")
        ELSE [kind |-> "pair", pitch |-> full_pitch,
              octave |-> Int_(DigitVal(octave_str))]

normalize_match(match) ==
    IF ~match.matched
    THEN Raise("ValueError")
    ELSE normalize_groups(match.pitch, match.accidental, match.octave_str)

normalize_upper(note) ==
    IF note \in {"R", "REST"}
    THEN [kind |-> "pair", pitch |-> "R", octave |-> None]
    ELSE normalize_match(note_match(note))

\* The pair (pitch, octave) normalize_note_name returns, or the exception it raises.
normalize_note_name(note) == normalize_upper(upper(strip(note)))

\* Line 57 on the pair: note_map[pitch] is evaluated before 12 * octave, so the
\* pair ('R', None) raises KeyError.
key_of(n) ==
    IF n.kind = "raise"
    THEN n
    ELSE IF n.pitch \notin DOMAIN note_map
         THEN Raise("KeyError")
         ELSE Int_(12 + note_map[n.pitch] + 12 * n.octave.val)

\* note_to_midi: None, the key number, or the exception raised.
note_to_midi(note) ==
    IF note = "R" THEN None ELSE key_of(normalize_note_name(note))

----------------------------------------------------------------------------
(* float() and int() on the fields of a line *)

Scale == 10 * 10 * 10

RECURSIVE Pow10(_)
Pow10(n) == IF n = 0 THEN 1 ELSE 10 * Pow10(n - 1)

IndexOfDot(s) ==
    IF \E i \in 1..Len(s) : CharAt(s, i) = "."
    THEN CHOOSE i \in 1..Len(s) :
            CharAt(s, i) = "." /\ \A j \in 1..(i - 1) : CharAt(s, j) # "."
    ELSE 0

Signed(s) == Len(s) > 0 /\ Head(s) \in {"+", "-"}

Unsigned(s) == IF Signed(s) THEN Tail(s) ELSE s

Negate(neg, n) == IF neg THEN 0 - n ELSE n

float_parts(neg, ip, fp) ==
    IF AllDigits(ip) /\ AllDigits(fp) /\ Len(ip) + Len(fp) > 0
    THEN [kind |-> "float",
          milli |-> Negate(neg, DigitsVal(ip, 0) * Scale
                                + (DigitsVal(fp, 0) * Scale) \div Pow10(Len(fp)))]
    ELSE Raise("ValueError")

float_body(neg, body, BODY, dot) ==
    IF BODY \in {"INF", "INFINITY"}
    THEN [kind |-> "inf"]
    ELSE IF BODY = "NAN"
    THEN [kind |-> "nan"]
    ELSE IF dot = 0
    THEN float_parts(neg, body, "")
    ELSE float_parts(neg, SubSeq(body, 1, dot - 1), SubSeq(body, dot + 1, Len(body)))

float_signed(neg, body) == float_body(neg, body, upper(body), IndexOfDot(body))

float_stripped(s) == float_signed(Len(s) > 0 /\ Head(s) = "-", Unsigned(s))

\* float(s) for s over signs, digits, one '.', and the words inf, infinity, nan
\* (exponents and underscores are outside the inputs drawn here): the value in
\* units of 1/Scale, [kind |-> "inf"], [kind |-> "nan"], or ValueError.
float_(s) == float_stripped(strip(s))

int_signed(neg, body) ==
    IF Len(body) > 0 /\ AllDigits(body)
    THEN Int_(Negate(neg, DigitsVal(body, 0)))
    ELSE Raise("ValueError")

int_stripped(s) == int_signed(Len(s) > 0 /\ Head(s) = "-", Unsigned(s))

\* int(s) for s over signs and digits: the value, or ValueError.
int_(s) == int_stripped(strip(s))

\* MidiFile().ticks_per_beat
ticks_per_beat == 480

\* int(x) of the exact quotient num / den: truncation toward zero.
trunc_div(num, den) == IF num < 0 THEN 0 - ((0 - num) \div den) ELSE num \div den

\* duration_ticks = int(ticks_per_beat * duration); int() of inf raises
\* OverflowError and int() of nan raises ValueError.
duration_ticks(duration) ==
    CASE duration.kind = "inf" -> Raise("OverflowError")
      [] duration.kind = "nan" -> Raise("ValueError")
      [] OTHER -> Int_(trunc_div(ticks_per_beat * duration.milli, Scale))

\* bpm2tempo(bpm): microseconds per beat, rounded to the nearest integer.
bpm2tempo(b) == (2 * 60000000 + b) \div (2 * b)

----------------------------------------------------------------------------
(* Messages *)

program_change == [type |-> "program_change", program |-> 0, time |-> 0]

\* Message(type, note=..., velocity=..., time=...)
Message(type, note, velocity, time) ==
    [type |-> type, note |-> note, velocity |-> velocity, time |-> time]

\* Every key and velocity of the inputs drawn below is a data byte (0..127), for
\* which the Message constructor returns the message.

----------------------------------------------------------------------------
(* The body of parse_text_to_midi's loop, for one line *)

collect_step(midi_note, midi_notes) ==
    IF midi_note.kind = "int" THEN Append(midi_notes, midi_note.val) ELSE midi_notes

propagates(midi_note) == midi_note.kind = "raise" /\ midi_note.exc # "ValueError"

\* The loop over notes: the keys collected, or the first exception that is not
\* a ValueError.
RECURSIVE collect_midi_notes(_, _)
collect_from(midi_note, rest, midi_notes) ==
    IF propagates(midi_note)
    THEN midi_note
    ELSE collect_midi_notes(rest, collect_step(midi_note, midi_notes))

collect_midi_notes(notes, midi_notes) ==
    IF notes = <<>>
    THEN [kind |-> "list", keys |-> midi_notes]
    ELSE collect_from(note_to_midi(strip(Head(notes))), Tail(notes), midi_notes)

note_ons(keys, velocity) ==
    [i \in 1..Len(keys) |-> Message("note_on", keys[i], velocity, 0)]

\* A variant in which every note_off carries the duration.
note_offs_all_carry(keys, velocity, ticks) ==
    [i \in 1..Len(keys) |-> Message("note_off", keys[i], velocity, ticks)]

note_offs(keys, velocity, ticks) ==
    [i \in 1..Len(keys) |->
        Message("note_off", keys[i], velocity, IF i = 1 THEN ticks ELSE 0)]

\* Lines 96-105: the rest message, or the note_on messages then the note_off
\* messages.
emit(keys, velocity, ticks) ==
    IF keys = <<>>
    THEN [kind |-> "events",
          events |-> <<Message("note_off", 0, 0, ticks)>>]
    ELSE [kind |-> "events",
          events |-> note_ons(keys, velocity) \o note_offs(keys, velocity, ticks)]

\* Lines 79-105 once the values are known: the first exception in program order
\* (velocity, ticks, a note), or the messages.
body_emit(velocity, ticks, midi_notes) ==
    CASE velocity.kind = "raise" ->
           [kind |-> "raise", exc |-> velocity.exc, events |-> <<>>]
      [] ticks.kind = "raise" ->
           [kind |-> "raise", exc |-> ticks.exc, events |-> <<>>]
      [] midi_notes.kind = "raise" ->
           [kind |-> "raise", exc |-> midi_notes.exc, events |-> <<>>]
      [] OTHER -> emit(midi_notes.keys, velocity.val, ticks.val)

velocity_of(parts) == IF Len(parts) > 2 THEN int_(parts[3]) ELSE Int_(64)

\* A variant in which the velocity is parsed before the duration is tried.
body_duration_velocity_first(parts, duration) ==
    IF velocity_of(parts).kind = "raise"
    THEN [kind |-> "raise", exc |-> "ValueError", events |-> <<>>]
    ELSE IF duration.kind = "raise"
    THEN [kind |-> "skip"]
    ELSE body_emit(velocity_of(parts), duration_ticks(duration),
                   collect_midi_notes(split_comma(parts[1]), <<>>))

\* Lines 75-78: a duration that float() refuses skips the line.
body_duration(parts, duration) ==
    IF duration.kind = "raise"
    THEN [kind |-> "skip"]
    ELSE body_emit(velocity_of(parts), duration_ticks(duration),
                   collect_midi_notes(split_comma(parts[1]), <<>>))

\* Lines 71-73: fewer than two fields skip the line.
body_parts(parts) ==
    IF Len(parts) < 2 THEN [kind |-> "skip"] ELSE body_duration(parts, float_(parts[2]))

\* Lines 69-70: a blank line is skipped.
body_stripped(line) ==
    IF Len(line) = 0 THEN [kind |-> "skip"] ELSE body_parts(split(line))

\* One iteration of the for loop: the line is skipped (continue), appends its
\* messages, or raises.
loop_body(line) == body_stripped(strip(line))

----------------------------------------------------------------------------
(* Inputs *)

MaxLines == 2
MaxTokens == 2

BPMs == {90, 120}

ChordTokens == {"C4", "Eb4", "H4"}

RECURSIVE ChordFields(_)
ChordFields(n) ==
    IF n = 1
    THEN ChordTokens
    ELSE ChordFields(n - 1) \cup
         {f \o "," \o t : f \in ChordFields(n - 1), t \in ChordTokens}

Lines ==
    {f \o " 1.0" : f \in ChordFields(MaxTokens)}
    \cup {n \o " " \o d : n \in {"C4", "R"}, d \in {"0.002", "-1", "fast", "inf", "2.5"}}
    \cup {n \o " 1.0 " \o v : n \in {"C4", "R"}, v \in {"100", "loud"}}
    \cup {"G9 1.0", "Cb4 1.0", "Rest 1.0", "r 1.0", "C4,Rest 1.0", "C4,R 0.5"}
    \cup {"", "   ", "C4", "C4 fast loud", "  E4 \t 0.5  "}

DigitChars == {CharAt(Digits, i) : i \in 1..Len(Digits)}

ResolveTokens ==
    {l \o a \o d : l \in PitchLetters, a \in {"", "#", "b"}, d \in DigitChars}
    \cup {"R", "REST", "r", "Rest", " R ", " rest ", "H4", "C", "C44", "C#b4", "c4", "db4"}

----------------------------------------------------------------------------
(* parse_text_to_midi as a state machine *)

Init ==
    /\ bpm \in BPMs
    /\ tempo = None
    /\ text = <<>>
    /\ track = <<>>
    /\ line_end = <<>>
    /\ status = "start"
    /\ exc = ""
    /\ token = ""
    /\ resolved = None

\* Lines 60-66: the file, its track, the tempo, the program change.
Begin ==
    /\ status = "start"
    /\ tempo' = Int_(bpm2tempo(bpm))
    /\ track' = <<program_change>>
    /\ status' = "loop"
    /\ UNCHANGED <<bpm, text, line_end, exc, token, resolved>>

\* loop_body on each line that can be drawn.
LineOutcome == [line \in Lines |-> loop_body(line)]

\* The effect of one iteration with outcome r on the state.
Step(line, r) ==
    /\ text' = Append(text, line)
    /\ track' = IF r.kind = "skip" THEN track ELSE track \o r.events
    /\ line_end' = IF r.kind = "raise"
                   THEN line_end
                   ELSE Append(line_end, Len(track'))
    /\ status' = IF r.kind = "raise" THEN "raised" ELSE "loop"
    /\ exc' = IF r.kind = "raise" THEN r.exc ELSE exc

\* Lines 68-105: the loop takes the next line of the text.
NextLine ==
    /\ status = "loop"
    /\ Len(text) < MaxLines
    /\ \E line \in Lines : Step(line, LineOutcome[line])
    /\ UNCHANGED <<bpm, tempo, token, resolved>>

\* Line 107: the text is exhausted and the file is returned.
Return ==
    /\ status = "loop"
    /\ status' = "returned"
    /\ UNCHANGED <<bpm, tempo, text, track, line_end, exc, token, resolved>>

Next == Begin \/ NextLine \/ Return

Spec == Init /\ [][Next]_vars

----------------------------------------------------------------------------
(* note_to_midi called on its own *)

InitResolve ==
    /\ bpm \in BPMs
    /\ tempo = None
    /\ text = <<>>
    /\ track = <<>>
    /\ line_end = <<>>
    /\ status = "resolver"
    /\ exc = ""
    /\ token \in ResolveTokens
    /\ resolved = [kind |-> "pending"]

Resolve ==
    /\ status = "resolver"
    /\ resolved.kind = "pending"
    /\ resolved' = note_to_midi(token)
    /\ UNCHANGED <<bpm, tempo, text, track, line_end, status, exc, token>>

NextResolve == Resolve

SpecResolve == InitResolve /\ [][NextResolve]_vars

----------------------------------------------------------------------------
(* What the properties below speak of *)

Fields(line) == split(strip(line))

\* An accepted line: at least two fields, and a second field float() parses.
Accepted(line) ==
    Len(Fields(line)) >= 2 /\ float_(Fields(line)[2]).kind # "raise"

\* An accepted line whose duration is a finite number, so that it has ticks.
FiniteDuration(line) ==
    Len(Fields(line)) >= 2 /\ float_(Fields(line)[2]).kind = "float"

Ticks(line) == duration_ticks(float_(Fields(line)[2])).val

Tokens(line) == split_comma(Fields(line)[1])

\* The keys of the tokens that resolve to a key, in token order.
RECURSIVE KeysOf(_)
KeysOf(tokens) ==
    IF tokens = <<>>
    THEN <<>>
    ELSE (IF note_to_midi(strip(Head(tokens))).kind = "int"
          THEN <<note_to_midi(strip(Head(tokens))).val>>
          ELSE <<>>) \o KeysOf(Tail(tokens))

\* The same, looked up per line that can be drawn.
IsAccepted == [line \in Lines |-> Accepted(line)]
IsFinite == [line \in Lines |-> FiniteDuration(line)]
TicksOf == [line \in Lines |-> IF FiniteDuration(line) THEN Ticks(line) ELSE 0]
LineKeys == [line \in Lines |-> IF Len(Fields(line)) >= 1 THEN KeysOf(Tokens(line)) ELSE <<>>]

\* The loop finished line j (it did not raise there).
Finished(j) == j <= Len(line_end)

LineStart(j) == IF j = 1 THEN 1 ELSE line_end[j - 1]

LineStop(j) == IF Finished(j) THEN line_end[j] ELSE Len(track)

\* The messages line j appended to the track.
Block(j) == SubSeq(track, LineStart(j) + 1, LineStop(j))

IsNote(e) == e.type \in {"note_on", "note_off"}

Shape(e) == <<e.type, e.note, e.time>>

Shapes(events) == [i \in 1..Len(events) |-> Shape(events[i])]

\* k key-downs of delta 0, then k key-ups of which the first carries the ticks.
ChordShape(keys, ticks) ==
    [i \in 1..(2 * Len(keys)) |->
        IF i <= Len(keys)
        THEN <<"note_on", keys[i], 0>>
        ELSE <<"note_off", keys[i - Len(keys)],
               IF i = Len(keys) + 1 THEN ticks ELSE 0>>]

IsRestHold(events, ticks) ==
    /\ Len(events) = 1
    /\ events[1].type = "note_off"
    /\ events[1].velocity = 0
    /\ events[1].time = ticks

\* The block of a line: nothing for a line that is not accepted, one hold for a
\* line without keys, the chord otherwise.
LineShape(line) ==
    IF ~IsAccepted[line]
    THEN <<>>
    ELSE IF LineKeys[line] = <<>>
         THEN <<(<<"note_off", 0, TicksOf[line]>>)>>
         ELSE ChordShape(LineKeys[line], TicksOf[line])

RECURSIVE SumTimes(_)
SumTimes(events) ==
    IF events = <<>> THEN 0 ELSE Head(events).time + SumTimes(Tail(events))

\* The absolute time of the p-th message of the track.
AbsTime(p) == SumTimes(SubSeq(track, 1, p))

\* The sum of the ticks of the accepted lines among the first n lines taken.
RECURSIVE TicksBefore(_)
TicksBefore(n) ==
    IF n = 0
    THEN 0
    ELSE TicksBefore(n - 1) + (IF IsAccepted[text[n]] THEN TicksOf[text[n]] ELSE 0)

RemoveAt(s, j) == SubSeq(s, 1, j - 1) \o SubSeq(s, j + 1, Len(s))

\* The whole loop over a list of lines, from a track: the track at the end, and
\* whether and with what the loop raised.
RECURSIVE RunFrom(_, _)
RunStep(r, rest, trk) ==
    CASE r.kind = "raise" -> [track |-> trk \o r.events, raised |-> TRUE, exc |-> r.exc]
      [] r.kind = "skip" -> RunFrom(rest, trk)
      [] OTHER -> RunFrom(rest, trk \o r.events)

RunFrom(lines, trk) ==
    IF lines = <<>>
    THEN [track |-> trk, raised |-> FALSE, exc |-> ""]
    ELSE RunStep(LineOutcome[Head(lines)], Tail(lines), trk)

\* The nearest integer to num / den (den > 0).
RoundDiv(num, den) == (2 * num + den) \div (2 * den)

----------------------------------------------------------------------------
(* The properties *)

\* C1: every accepted line whose notes field resolves to k >= 1 keys appends
\* exactly 2k messages: k note_on of delta 0 in token order, then k note_off for
\* the same keys in the same order, the first carrying the line's ticks and the
\* others delta 0.  (Stated where the line's ticks are a number.)
C1_ChordBlock ==
    \A j \in 1..Len(text) :
        (IsFinite[text[j]] /\ LineKeys[text[j]] # <<>>)
        => Shapes(Block(j)) = ChordShape(LineKeys[text[j]], TicksOf[text[j]])

\* C2: a line whose notes field is a single rest token (R or REST, any letter
\* case) and whose duration parses is compiled without failure into exactly one
\* zero-velocity note_off carrying the line's ticks, and no note_on.
C2_RestLine ==
    \A j \in 1..Len(text) :
        (IsFinite[text[j]] /\ upper(strip(Fields(text[j])[1])) \in {"R", "REST"})
        => (Finished(j) /\ IsRestHold(Block(j), TicksOf[text[j]]))

\* C3: the returned track holds a tempo meta-event of 60,000,000 / bpm
\* microseconds per beat and a program change, both before every note message.
C3_TempoInTrack ==
    status = "returned" =>
        \E t, p \in 1..Len(track) :
            /\ track[t].type = "set_tempo"
            /\ track[t].tempo = bpm2tempo(bpm)
            /\ track[p].type = "program_change"
            /\ \A n \in 1..Len(track) : IsNote(track[n]) => (t < n /\ p < n)

\* C4: a token that does not match the grammar (letter A-G, optional # or b, one
\* digit) is dropped and nothing else: the compile does not abort at its line,
\* the other tokens give their note_on/note_off messages, and when no token of
\* the line gives a key the line is one rest hold of the line's ticks.
C4_FailedTokenDropped ==
    \A j \in 1..Len(text) :
        (/\ IsFinite[text[j]]
         /\ \E i \in 1..Len(Tokens(text[j])) :
               ~note_match(upper(strip(Tokens(text[j])[i]))).matched)
        => /\ Finished(j)
           /\ IF LineKeys[text[j]] = <<>>
              THEN IsRestHold(Block(j), TicksOf[text[j]])
              ELSE Shapes(Block(j)) = ChordShape(LineKeys[text[j]], TicksOf[text[j]])

\* C5: a line that is blank, has fewer than two fields, or has a second field
\* float() refuses appends no message, and the outcome of the compile is the
\* outcome for the text without that line.
C5_SkippedLineIsAbsent ==
    \A j \in 1..Len(text) :
        ~IsAccepted[text[j]] =>
            /\ Block(j) = <<>>
            /\ RunFrom(RemoveAt(text, j), <<program_change>>)
                 = [track |-> track, raised |-> (status = "raised"), exc |-> exc]

C5_Witness ==
    /\ status = "returned"
    /\ Len(text) = 2
    /\ ~IsAccepted[text[1]]
    /\ Len(Fields(text[1])) >= 2
    /\ Len(Block(2)) >= 2

\* C6: the ticks a line's messages carry are ticks_per_beat times the duration,
\* rounded to the nearest integer.
C6_RoundedTicks ==
    \A j \in 1..Len(text) :
        (Finished(j) /\ IsFinite[text[j]])
        => SumTimes(Block(j))
             = RoundDiv(ticks_per_beat * float_(Fields(text[j])[2]).milli, Scale)

\* C7: no line makes parse_text_to_midi fail: for every text it returns a stream.
C7_NeverRaises == status # "raised"

\* C8: the flat token L b d resolves to the key one semitone below the key of
\* the natural token L d.
C8_FlatIsOneBelowNatural ==
    (/\ status = "resolver"
     /\ resolved.kind # "pending"
     /\ Len(token) = 3
     /\ CharAt(token, 1) \in PitchLetters
     /\ CharAt(token, 2) = "b"
     /\ IsDigit(CharAt(token, 3)))
    => /\ resolved.kind = "int"
       /\ resolved.val
            = 12 + note_map[CharAt(token, 1)] + 12 * DigitVal(CharAt(token, 3)) - 1

C10_NonNegativeDeltas ==
    status = "returned" => \A i \in 1..Len(track) : track[i].time >= 0

====
